---- MODULE Spec2Model ----
(***************************************************************************)
(* Model of the two programs of "Parallel Filtering":                      *)
(*   filter_apply.c           the sequential filter and dataset driver     *)
(*   filter_apply_parallel.c  the OpenMP filter and dataset driver         *)
(*                                                                         *)
(* Spec        one image run through both programs' filter pipelines       *)
(*             (applyGaussianFilter then applyWienerFilter); the parallel  *)
(*             sweep is modelled thread by thread, row by row.             *)
(* DriverSpec  processDataset of either program over a manifest.           *)
(*                                                                         *)
(* Environment assumptions: malloc of the scratch buffer succeeds; the     *)
(* double arithmetic is IEEE-754 binary64, round to nearest even, with no  *)
(* contraction of a*b+c into a fused multiply-add.                         *)
(***************************************************************************)
EXTENDS Integers, Sequences, FiniteSets, TLC

(***************************************************************************)
(* Binary64 arithmetic on the values the Gaussian stage meets.  Every one  *)
(* of them is a non-negative multiple of 2^-59 below 2^8, so a double is   *)
(* held as the integer value * 2^59 in four limbs of 20 bits, least        *)
(* significant first, and rounding to 53 significant bits touches only     *)
(* the lowest limb.                                                        *)
(***************************************************************************)
Base == 2^20

\* number of significant bits of a limb
BitLen(v) == CHOOSE n \in 0..21 : 2^n > v /\ (n = 0 \/ 2^(n - 1) <= v)

Carry(a) ==
    LET l1 == a[1]
        l2 == a[2] + (l1 \div Base)
        l3 == a[3] + (l2 \div Base)
        l4 == a[4] + (l3 \div Base)
    IN  <<l1 % Base, l2 % Base, l3 % Base, l4>>

FxZero == <<0, 0, 0, 0>>

FxAdd(a, b) == Carry(<<a[1] + b[1], a[2] + b[2], a[3] + b[3], a[4] + b[4]>>)

FxMulSmall(a, p) == Carry(<<a[1] * p, a[2] * p, a[3] * p, a[4] * p>>)

FxGeq(a, b) ==
    IF a[4] # b[4] THEN a[4] > b[4]
    ELSE IF a[3] # b[3] THEN a[3] > b[3]
    ELSE IF a[2] # b[2] THEN a[2] > b[2]
    ELSE a[1] >= b[1]

\* a - b for a >= b
FxSub(a, b) ==
    LET d1 == a[1] - b[1]
        b1 == IF d1 < 0 THEN 1 ELSE 0
        d2 == a[2] - b[2] - b1
        b2 == IF d2 < 0 THEN 1 ELSE 0
        d3 == a[3] - b[3] - b2
        b3 == IF d3 < 0 THEN 1 ELSE 0
    IN  <<d1 + b1 * Base, d2 + b2 * Base, d3 + b3 * Base, a[4] - b[4] - b3>>

FxHalf(a) ==
    <<(a[1] \div 2) + (a[2] % 2) * (Base \div 2),
      (a[2] \div 2) + (a[3] % 2) * (Base \div 2),
      (a[3] \div 2) + (a[4] % 2) * (Base \div 2),
      a[4] \div 2>>

\* number of significant bits of the limbs
FxBits(a) ==
    IF a[4] > 0 THEN 60 + BitLen(a[4])
    ELSE IF a[3] > 0 THEN 40 + BitLen(a[3])
    ELSE IF a[2] > 0 THEN 20 + BitLen(a[2])
    ELSE BitLen(a[1])

\* round to 53 significant bits, to nearest, ties to even; sticky says that
\* the exact value lies strictly above the limbs
RoundDouble(a, sticky) ==
    LET s == FxBits(a) - 53
    IN  IF s <= 0 THEN a
        ELSE LET m    == 2^s
                 r    == a[1] % m
                 half == m \div 2
                 odd  == ((a[1] \div m) % 2) = 1
                 up   == r > half \/ (r = half /\ (sticky \/ odd))
             IN  Carry(<<a[1] - r + (IF up THEN m ELSE 0), a[2], a[3], a[4]>>)

\* double + double
FpAdd(a, b) == RoundDouble(FxAdd(a, b), FALSE)

\* (double)sample * double
FpMul(a, p) == RoundDouble(FxMulSmall(a, p), FALSE)

\* long division in digits of 10 bits: <<quotient, remainder>> after n
\* quotient digits of a / d, for a < d
RECURSIVE DivDigits(_, _, _)
DivDigits(a, d, n) ==
    IF n = 0 THEN <<FxZero, a>>
    ELSE LET prev  == DivDigits(a, d, n - 1)
             r2    == FxMulSmall(prev[2], 2^10)
             digit == CHOOSE k \in 0..(2^10 - 1) :
                         /\ FxGeq(r2, FxMulSmall(d, k))
                         /\ ~FxGeq(r2, FxMulSmall(d, k + 1))
         IN  <<FxAdd(FxMulSmall(prev[1], 2^10), <<digit, 0, 0, 0>>),
               FxSub(r2, FxMulSmall(d, digit))>>

\* double / double for 2^-7 <= a/d < 1: the quotient to 60 fractional bits,
\* rounded to 53 significant bits, then back to units of 2^-59
FpDiv(a, d) ==
    LET qr == DivDigits(a, d, 6)
    IN  FxHalf(RoundDouble(qr[1], qr[2] # FxZero))

\* the integer part of a double
FpTrunc(a) == a[4] * 2 + (a[3] \div (Base \div 2))

(***************************************************************************)
(* applyGaussianFilter: the kernel                                         *)
(***************************************************************************)
kernel_size == 5

offset == kernel_size \div 2

kernel_area == kernel_size * kernel_size

\* exp(-(x*x + y*y) / (2*sigma*sigma)) for sigma = 1.5, by x*x + y*y, as
\* binary64 values in units of 2^-59
ExpValue(d2) ==
    CASE d2 = 0 -> <<0, 0, 524288, 0>>
      [] d2 = 1 -> <<97728, 12059, 419817, 0>>
      [] d2 = 2 -> <<349888, 192402, 336163, 0>>
      [] d2 = 4 -> <<145472, 252251, 215541, 0>>
      [] d2 = 5 -> <<584672, 978522, 172591, 0>>
      [] d2 = 8 -> <<1018288, 684832, 88611, 0>>

\* the unnormalised entry kernel[i][j]
RawKernel(i, j) ==
    LET x == i - (kernel_size \div 2)
        y == j - (kernel_size \div 2)
    IN  ExpValue(x * x + y * y)

\* sum += kernel[i][j], in the order of the two loops; 0.0 + t is t exactly
RECURSIVE RawSum(_)
RawSum(n) ==
    IF n = 0 THEN FxZero
    ELSE LET prev == RawSum(n - 1)
             term == RawKernel((n - 1) \div kernel_size, (n - 1) % kernel_size)
         IN  IF prev = FxZero THEN term ELSE FpAdd(prev, term)

KernelSum == RawSum(kernel_size * kernel_size)

\* kernel[i][j] /= sum
kernel == [i \in 0..(kernel_size - 1) |->
             [j \in 0..(kernel_size - 1) |-> FpDiv(RawKernel(i, j), KernelSum)]]

\* pixel_value after the first n terms of the two inner loops at (i, j);
\* 0.0 + t is t exactly
RECURSIVE GaussAcc(_, _, _, _, _)
GaussAcc(img, w, i, j, n) ==
    IF n = 0 THEN FxZero
    ELSE LET k    == ((n - 1) \div kernel_size) - offset
             l    == ((n - 1) % kernel_size) - offset
             prev == GaussAcc(img, w, i, j, n - 1)
             term == FpMul(kernel[k + offset][l + offset],
                           img[(i + k) * w + (j + l)])
         IN  IF prev = FxZero THEN term ELSE FpAdd(prev, term)

\* (unsigned char)(pixel_value < 0 ? 0 : (pixel_value > 255 ? 255 : pixel_value))
ClampToByte(v) == IF FpTrunc(v) >= 255 THEN 255 ELSE FpTrunc(v)

GaussPixel(img, w, i, j) ==
    ClampToByte(GaussAcc(img, w, i, j, kernel_size * kernel_size))

\* sum / kernel_area over the window at (i, j)
RECURSIVE WindowSum(_, _, _, _, _)
WindowSum(img, w, i, j, n) ==
    IF n = 0 THEN 0
    ELSE LET k == ((n - 1) \div kernel_size) - offset
             l == ((n - 1) % kernel_size) - offset
         IN  WindowSum(img, w, i, j, n - 1) + img[(i + k) * w + (j + l)]

\* a mean rounded to nearest instead of truncated
MeanPixelRounded(img, w, i, j) ==
    ((WindowSum(img, w, i, j, kernel_size * kernel_size) + kernel_area \div 2)
        \div kernel_area) % 256

MeanPixel(img, w, i, j) ==
    (WindowSum(img, w, i, j, kernel_size * kernel_size) \div kernel_area) % 256

(***************************************************************************)
(* Bounds of the model                                                     *)
(***************************************************************************)
MaxWidth == 5

MaxHeight == 6

MaxThreads == 2

MaxEntries == 3

\* sample values of the uniform input images
UniformValues == {0, 55, 128, 255}

\* slopes of the non-uniform input images
RampSteps == {17, 97}

\* fill bytes of a freshly allocated scratch buffer
HeapFills == {0, 255}

(***************************************************************************)
(* State                                                                   *)
(***************************************************************************)
VARIABLES
    width, height,   \* the loaded image's dimensions
    input,           \* the loaded image, as stbi_load returned it
    nthreads,        \* the OpenMP team size
    \* filter_apply_parallel.c, one image
    pStage,          \* "gauss" | "wiener": the filter function running
    pPc,             \* "sweep" | "border" | "memcpy" | "done" | "crashed"
    pImage,          \* image_data
    pTemp,           \* temp
    pGauss,          \* image_data as applyGaussianFilter left it
    nextRow,         \* the next iteration the dynamic schedule hands out
    thr,             \* thread -> the row it holds, or NoRow
    rowTaken,        \* row -> how many times it was handed out
    cellWriters,     \* temp index -> the threads that wrote it in the sweep
    sweepReads,      \* buffers the threads have read in the sweep
    sweepWrites,     \* buffers the threads have written in the sweep
    borderDone,      \* the two border loops of this stage have run
    pBad,            \* indices used outside [0, width*height)
    \* filter_apply.c, one image
    sPc,             \* "gauss" | "wiener" | "done"
    sImage,          \* image_data
    sGauss,          \* image_data as applyGaussianFilter left it
    sBad,            \* indices used outside [0, width*height)
    \* processDataset
    impl,            \* "seq" | "par": which program runs
    manifest,        \* "noopen" | "noparse" | "noarray" | "ok"
    entries,         \* the "images" array
    dirState,        \* "absent" | "present" | "blocked": the output directory
    dPc,             \* "start" | "loop" | "returned" | "finished"
    cur,             \* position of image_item in the array, from 1
    processed_images,
    reports,         \* the calls of printProgressBar, as <<current, total>>
    loaded,          \* entries stbi_load returned an image for
    filtered,        \* entries both filters were applied to
    written,         \* entries handed to stbi_write_png
    timeReported     \* "Processing time" was printed

filterVars == <<width, height, input, nthreads, pStage, pPc, pImage, pTemp,
                pGauss, nextRow, thr, rowTaken, cellWriters, sweepReads,
                sweepWrites, borderDone, pBad, sPc, sImage, sGauss, sBad>>

driverVars == <<impl, manifest, entries, dirState, dPc, cur, processed_images,
                reports, loaded, filtered, written, timeReported>>

vars == <<filterVars, driverVars>>

(***************************************************************************)
(* Buffers and index sets                                                  *)
(***************************************************************************)
Pixels(w, h) == 0..(w * h - 1)

\* for (int i = offset; i < height - offset; i++)
InteriorRows(h) == offset..(h - offset - 1)

\* for (int j = offset; j < width - offset; j++)
InteriorCols(w) == offset..(w - offset - 1)

Window == (0 - offset)..offset

\* a cell of a malloc'ed buffer nothing was stored to
Indeterminate == 0 - 1

NoRow == 0 - 1

FreshTemp(w, h) == [n \in Pixels(w, h) |-> Indeterminate]

\* what malloc's memory may hold: a fill byte, or stale bytes
HeapContents(w, h) ==
    {[n \in Pixels(w, h) |-> g] : g \in HeapFills}
        \cup {[n \in Pixels(w, h) |-> (41 * n + 13) % 256]}

\* the images the loader may return
Images(w, h) ==
    {[n \in Pixels(w, h) |-> v] : v \in UniformValues}
        \cup {[n \in Pixels(w, h) |-> (s * n + 1) % 256] : s \in RampSteps}

\* indices the inner loops read at the rows of R
SweepReadIdx(w, h, R) ==
    {(i + k) * w + (j + l) :
        <<i, j, k, l>> \in R \X InteriorCols(w) \X Window \X Window}

\* indices the sweep stores to at the rows of R
SweepWriteIdx(w, h, R) == {i * w + j : <<i, j>> \in R \X InteriorCols(w)}

\* indices of the two border loops of the parallel program
BorderIdx(w, h) ==
    {i * w + j : <<i, j>> \in (0..(offset - 1)) \X (0..(w - 1))}
        \cup {(h - i - 1) * w + j : <<i, j>> \in (0..(offset - 1)) \X (0..(w - 1))}
        \cup {i * w + j : <<i, j>> \in InteriorRows(h) \X (0..(offset - 1))}
        \cup {i * w + (w - j - 1) : <<i, j>> \in InteriorRows(h) \X (0..(offset - 1))}

OutOfRange(S, w, h) == {n \in S : n < 0 \/ n >= w * h}

\* the value the sweep of a stage stores at (i, j)
StagePixel(stage, img, w, i, j) ==
    IF stage = "gauss" THEN GaussPixel(img, w, i, j) ELSE MeanPixel(img, w, i, j)

\* temp after the sweep has run over the rows of R
SweepRows(stage, img, temp, w, h, R) ==
    [n \in Pixels(w, h) |->
        IF (n \div w) \in R /\ (n % w) \in InteriorCols(w)
        THEN StagePixel(stage, img, w, n \div w, n % w)
        ELSE temp[n]]

\* temp after the two border loops
BorderCopy(img, temp, w, h) ==
    [n \in Pixels(w, h) |-> IF n \in BorderIdx(w, h) THEN img[n] ELSE temp[n]]

(***************************************************************************)
(* filter_apply_parallel.c: applyGaussianFilter, applyWienerFilter         *)
(***************************************************************************)
Threads == 1..nthreads

\* the buffer the inner loops of the sweep read
SweepSource(image_data, temp) == image_data

\* the buffers a thread reads and the buffers it writes in one iteration
IterationReads(stage) ==
    IF stage = "gauss" THEN {"image_data", "kernel"} ELSE {"image_data"}

IterationWrites(stage) == {"temp"}

\* a counter that is read but not advanced
NextIterationStuck(r) == r

\* schedule(dynamic): the shared iteration counter after handing out row r
NextIteration(r) == r + 1

\* the implicit barrier that ends the parallel for: no iteration is left and
\* no thread is inside one
TeamAtBarrier(held, next, h) ==
    /\ next >= h - offset
    /\ \A t \in DOMAIN held : held[t] = NoRow

\* a thread takes the next iteration of the loop
GrabRow(t) ==
    /\ pPc = "sweep"
    /\ thr[t] = NoRow
    /\ nextRow < height - offset
    /\ thr' = [thr EXCEPT ![t] = nextRow]
    /\ rowTaken' = [rowTaken EXCEPT ![nextRow] = @ + 1]
    /\ nextRow' = NextIteration(nextRow)
    /\ UNCHANGED <<width, height, input, nthreads, pStage, pPc, pImage, pTemp,
                   pGauss, cellWriters, sweepReads, sweepWrites, borderDone,
                   pBad, sPc, sImage, sGauss, sBad>>
    /\ UNCHANGED driverVars

\* the thread runs the body of its iteration: one row of the interior
ComputeRow(t) ==
    /\ pPc = "sweep"
    /\ thr[t] # NoRow
    /\ LET R == {thr[t]}
       IN  /\ pTemp' = SweepRows(pStage, SweepSource(pImage, pTemp), pTemp,
                                 width, height, R)
           /\ cellWriters' =
                 [n \in Pixels(width, height) |->
                     IF n \in SweepWriteIdx(width, height, R)
                     THEN cellWriters[n] \cup {t} ELSE cellWriters[n]]
           /\ pBad' = pBad \cup OutOfRange(SweepReadIdx(width, height, R)
                                   \cup SweepWriteIdx(width, height, R),
                               width, height)
    /\ sweepReads' = sweepReads \cup IterationReads(pStage)
    /\ sweepWrites' = sweepWrites \cup IterationWrites(pStage)
    /\ thr' = [thr EXCEPT ![t] = NoRow]
    /\ UNCHANGED <<width, height, input, nthreads, pStage, pPc, pImage, pGauss,
                   nextRow, rowTaken, borderDone, sPc, sImage, sGauss, sBad>>
    /\ UNCHANGED driverVars

\* the team leaves the parallel region; the initial thread goes on alone
JoinTeam ==
    /\ pPc = "sweep"
    /\ TeamAtBarrier(thr, nextRow, height)
    /\ pPc' = "border"
    /\ UNCHANGED <<width, height, input, nthreads, pStage, pImage, pTemp,
                   pGauss, nextRow, thr, rowTaken, cellWriters, sweepReads,
                   sweepWrites, borderDone, pBad, sPc, sImage, sGauss, sBad>>
    /\ UNCHANGED driverVars

\* the two border loops.  An index outside the buffers is undefined
\* behaviour: the process may die, or go on with any bytes in temp.
CopyBorder ==
    /\ pPc = "border"
    /\ LET bad == OutOfRange(BorderIdx(width, height), width, height)
           ok  == BorderCopy(pImage, pTemp, width, height)
       IN  /\ pBad' = pBad \cup bad
           /\ \/ /\ bad = {}
                 /\ pTemp' = ok
                 /\ pPc' = "memcpy"
              \/ /\ bad # {}
                 /\ pTemp' \in {ok} \cup HeapContents(width, height)
                 /\ pPc' = "memcpy"
              \/ /\ bad # {}
                 /\ pTemp' = pTemp
                 /\ pPc' = "crashed"
    /\ borderDone' = TRUE
    /\ UNCHANGED <<width, height, input, nthreads, pStage, pImage, pGauss,
                   nextRow, thr, rowTaken, cellWriters, sweepReads,
                   sweepWrites, sPc, sImage, sGauss, sBad>>
    /\ UNCHANGED driverVars

\* memcpy(image_data, temp, width * height); free(temp); and, after the
\* Gaussian stage, the entry of applyWienerFilter
Memcpy ==
    /\ pPc = "memcpy"
    /\ pImage' = pTemp
    /\ \/ /\ pStage = "gauss"
          /\ pGauss' = pTemp
          /\ pStage' = "wiener"
          /\ pPc' = "sweep"
          /\ pTemp' = FreshTemp(width, height)
          /\ nextRow' = offset
          /\ rowTaken' = [r \in InteriorRows(height) |-> 0]
          /\ cellWriters' = [n \in Pixels(width, height) |-> {}]
          /\ sweepReads' = {}
          /\ sweepWrites' = {}
          /\ borderDone' = FALSE
       \/ /\ pStage = "wiener"
          /\ pPc' = "done"
          /\ UNCHANGED <<pGauss, pStage, pTemp, nextRow, rowTaken, cellWriters,
                         sweepReads, sweepWrites, borderDone>>
    /\ UNCHANGED <<width, height, input, nthreads, thr, pBad, sPc, sImage,
                   sGauss, sBad>>
    /\ UNCHANGED driverVars

(***************************************************************************)
(* filter_apply.c: applyGaussianFilter, applyWienerFilter                  *)
(* The two programs share nothing, so their steps commute; the model runs  *)
(* the sequential one once the parallel one has ended.                     *)
(***************************************************************************)
ParEnded == pPc \in {"done", "crashed"}

\* one filter function of the sequential program: temp is malloc'ed, the
\* interior is swept, and all of temp is copied over image_data
SeqFilter(stage, image_data, heap, w, h) ==
    SweepRows(stage, image_data, heap, w, h, InteriorRows(h))

SeqGauss ==
    /\ ParEnded
    /\ sPc = "gauss"
    /\ \E heap \in HeapContents(width, height) :
          sImage' = SeqFilter("gauss", sImage, heap, width, height)
    /\ sGauss' = sImage'
    /\ sBad' = sBad \cup OutOfRange(
                  SweepReadIdx(width, height, InteriorRows(height))
                      \cup SweepWriteIdx(width, height, InteriorRows(height)),
                  width, height)
    /\ sPc' = "wiener"
    /\ UNCHANGED <<width, height, input, nthreads, pStage, pPc, pImage, pTemp,
                   pGauss, nextRow, thr, rowTaken, cellWriters, sweepReads,
                   sweepWrites, borderDone, pBad>>
    /\ UNCHANGED driverVars

SeqWiener ==
    /\ ParEnded
    /\ sPc = "wiener"
    /\ \E heap \in HeapContents(width, height) :
          sImage' = SeqFilter("wiener", sImage, heap, width, height)
    /\ sBad' = sBad \cup OutOfRange(
                  SweepReadIdx(width, height, InteriorRows(height))
                      \cup SweepWriteIdx(width, height, InteriorRows(height)),
                  width, height)
    /\ sPc' = "done"
    /\ UNCHANGED <<width, height, input, nthreads, pStage, pPc, pImage, pTemp,
                   pGauss, nextRow, thr, rowTaken, cellWriters, sweepReads,
                   sweepWrites, borderDone, pBad, sGauss>>
    /\ UNCHANGED driverVars

(***************************************************************************)
(* Spec: one image through both programs' pipelines                        *)
(***************************************************************************)
DriverIdle ==
    /\ impl = "seq"
    /\ manifest = "ok"
    /\ entries = <<>>
    /\ dirState = "present"
    /\ dPc = "off"
    /\ cur = 1
    /\ processed_images = 0
    /\ reports = <<>>
    /\ loaded = {}
    /\ filtered = {}
    /\ written = {}
    /\ timeReported = FALSE

Init ==
    /\ width \in 1..MaxWidth
    /\ height \in 1..MaxHeight
    /\ input \in Images(width, height)
    /\ nthreads \in 1..MaxThreads
    /\ pStage = "gauss"
    /\ pPc = "sweep"
    /\ pImage = input
    /\ pTemp = FreshTemp(width, height)
    /\ pGauss = input
    /\ nextRow = offset
    /\ thr = [t \in 1..nthreads |-> NoRow]
    /\ rowTaken = [r \in InteriorRows(height) |-> 0]
    /\ cellWriters = [n \in Pixels(width, height) |-> {}]
    /\ sweepReads = {}
    /\ sweepWrites = {}
    /\ borderDone = FALSE
    /\ pBad = {}
    /\ sPc = "gauss"
    /\ sImage = input
    /\ sGauss = input
    /\ sBad = {}
    /\ DriverIdle

Next ==
    \/ \E t \in Threads : GrabRow(t)
    \/ \E t \in Threads : ComputeRow(t)
    \/ JoinTeam
    \/ CopyBorder
    \/ Memcpy
    \/ SeqGauss
    \/ SeqWiener

Spec == Init /\ [][Next]_vars

(***************************************************************************)
(* Properties of the filter pipeline, checked under Spec                   *)
(***************************************************************************)
Row(n) == n \div width

Col(n) == n % width

\* within offset of an edge
InBorder(n) ==
    \/ Row(n) < offset
    \/ Row(n) >= height - offset
    \/ Col(n) < offset
    \/ Col(n) >= width - offset

HasInterior == height > 2 * offset /\ width > 2 * offset

IsUniform(img) == \A m, n \in DOMAIN img : img[m] = img[n]

RECURSIVE SumOver(_, _)
SumOver(buf, S) ==
    IF S = {} THEN 0
    ELSE LET n == CHOOSE m \in S : TRUE
         IN  buf[n] + SumOver(buf, S \ {n})

\* the samples of buf in the 5x5 window centred on (i, j), added up
WindowTotal(buf, i, j) ==
    SumOver(buf, {(i + k) * width + (j + l) : <<k, l>> \in Window \X Window})

\* C1: for every input image the sequential pipeline and the parallel
\* pipeline, at any team size and under any assignment of rows to threads,
\* produce byte-identical buffers, border pixels included.  Stated for the
\* runs in which every index stayed inside the buffers.
C1_ModesAgree ==
    (pPc = "done" /\ sPc = "done" /\ pBad = {}) => sImage = pImage

\* C2: for height > 2*offset and width > 2*offset, after the full pipeline
\* every pixel in the outermost offset rows and columns equals the input
\* pixel at the same position, in the sequential and in the parallel program.
C2_BorderPreserved ==
    HasInterior =>
        /\ pPc = "done" =>
              \A n \in Pixels(width, height) : InBorder(n) => pImage[n] = input[n]
        /\ sPc = "done" =>
              \A n \in Pixels(width, height) : InBorder(n) => sImage[n] = input[n]

\* C3: if height <= 2*offset or width <= 2*offset the pipeline output equals
\* the input: every output pixel is assigned and equals the input pixel.
C3_DegenerateIdentity ==
    ~HasInterior =>
        /\ pPc = "done" => pImage = input
        /\ sPc = "done" => sImage = input

\* C4: a uniform input of value V yields an output whose every sample,
\* border and interior, is V.  Stated for the parallel program, in the runs
\* in which every index stayed inside the buffers.
C4_UniformPreserved ==
    (IsUniform(input) /\ pPc = "done" /\ pBad = {}) => pImage = input

\* C8: during the parallel sweep of either filter, under every interleaving
\* and every dynamic assignment, each interior row is handed to exactly one
\* thread, no cell of temp is written by two threads, no thread reads temp,
\* no thread writes image_data or the kernel, and image_data keeps the
\* stage's input until every thread and the border copy have finished.
C8_SweepIsRaceFree ==
    /\ \A r \in DOMAIN rowTaken : rowTaken[r] <= 1
    /\ \A n \in DOMAIN cellWriters : Cardinality(cellWriters[n]) <= 1
    /\ "temp" \notin sweepReads
    /\ "image_data" \notin sweepWrites
    /\ "kernel" \notin sweepWrites
    /\ pPc \in {"border", "memcpy"} =>
          /\ \A r \in DOMAIN rowTaken : rowTaken[r] = 1
          /\ \A t \in DOMAIN thr : thr[t] = NoRow
          /\ \A r \in DOMAIN rowTaken :
                \A j \in InteriorCols(width) : cellWriters[r * width + j] # {}
    /\ pPc = "memcpy" => borderDone
    /\ (pPc \in {"sweep", "border", "memcpy"} /\ pStage = "gauss") => pImage = input
    /\ (pPc \in {"sweep", "border", "memcpy"} /\ pStage = "wiener") => pImage = pGauss

\* two threads have each swept a row of the same stage
C8_Witness ==
    /\ pStage = "wiener"
    /\ pPc = "memcpy"
    /\ \E m, n \in DOMAIN cellWriters :
          cellWriters[m] = {1} /\ cellWriters[n] = {2}

\* C9: for every width > 0 and height > 0, height = 1 included, every index
\* a filter stage uses to read image_data or write temp, in the sweep and in
\* both border loops, lies in [0, width*height).
C9_IndicesInBounds == pBad = {} /\ sBad = {}

\* C10: the local-mean stage runs on the Gaussian stage's completed output:
\* every interior pixel of the final image is the truncating quotient by 25
\* of the sum of the 25 samples of that output in its 5x5 window.
C10_MeanOfGaussOutput ==
    /\ pPc = "done" =>
          \A i \in InteriorRows(height) : \A j \in InteriorCols(width) :
              pImage[i * width + j] = WindowTotal(pGauss, i, j) \div 25
    /\ sPc = "done" =>
          \A i \in InteriorRows(height) : \A j \in InteriorCols(width) :
              sImage[i * width + j] = WindowTotal(sGauss, i, j) \div 25

\* both programs have filtered an image with an interior, and each stage
\* changed it
C10_Witness ==
    /\ pPc = "done"
    /\ sPc = "done"
    /\ HasInterior
    /\ pGauss # input
    /\ pImage # pGauss

(***************************************************************************)
(* processDataset, of either program.  What the filters do to the buffer   *)
(* is the subject of Spec; here an entry is followed through the loop      *)
(* body: loaded, filtered, written, counted.                               *)
(***************************************************************************)
\* an element of "images": its file_name is no string; it names a file
\* stbi_load cannot read; it names an image
EntryKinds == {"nostring", "missing", "image"}

RECURSIVE SeqsUpTo(_, _)
SeqsUpTo(S, n) ==
    IF n = 0 THEN {<<>>}
    ELSE LET shorter == SeqsUpTo(S, n - 1)
         IN  shorter \cup {Append(q, e) : <<q, e>> \in shorter \X S}

\* the three checks without cJSON_IsArray
ManifestFatalNoArrayCheck(m) == m \in {"noopen", "noparse"}

\* fopen failed, cJSON_Parse failed, or "images" is no array
ManifestFatal(m) == m \in {"noopen", "noparse", "noarray"}

\* mkdir(output_dir) == -1 && errno != EEXIST
MkdirFails(dir) == dir = "blocked"

\* the directory after a mkdir that did not fail
AfterMkdir(dir) == "present"

\* how the loop body ends for an entry
EntryOutcome(kind, program, dir) ==
    IF kind = "nostring" THEN "nostring"      \* continue
    ELSE IF kind = "missing" THEN "noload"    \* continue
    ELSE IF program = "seq" /\ MkdirFails(dir) THEN "nodir"   \* continue
    ELSE "written"

\* a counter bumped on every pass of the loop
CountedAlways(outcome) == TRUE

\* the body reached processed_images++ and printProgressBar
Counted(outcome) == outcome = "written"

\* from the entry of processDataset to the loop
Prologue ==
    /\ dPc = "start"
    /\ \/ /\ ManifestFatal(manifest)
          /\ dPc' = "returned"
          /\ UNCHANGED dirState
       \/ /\ ~ManifestFatal(manifest)
          /\ impl = "seq"
          /\ dPc' = "loop"
          /\ UNCHANGED dirState
       \/ /\ ~ManifestFatal(manifest)
          /\ impl = "par"
          /\ MkdirFails(dirState)
          /\ dPc' = "returned"
          /\ UNCHANGED dirState
       \/ /\ ~ManifestFatal(manifest)
          /\ impl = "par"
          /\ ~MkdirFails(dirState)
          /\ dPc' = "loop"
          /\ dirState' = AfterMkdir(dirState)
    /\ UNCHANGED <<impl, manifest, entries, cur, processed_images, reports,
                   loaded, filtered, written, timeReported>>
    /\ UNCHANGED filterVars

\* one pass of cJSON_ArrayForEach
ProcessEntry ==
    /\ dPc = "loop"
    /\ cur <= Len(entries)
    /\ LET outcome == EntryOutcome(entries[cur], impl, dirState)
           got     == outcome \in {"nodir", "written"}
       IN  /\ loaded' = IF got THEN loaded \cup {cur} ELSE loaded
           /\ filtered' = IF got THEN filtered \cup {cur} ELSE filtered
           /\ dirState' = IF impl = "seq" /\ outcome = "written"
                          THEN AfterMkdir(dirState) ELSE dirState
           /\ written' = IF outcome = "written" THEN written \cup {cur} ELSE written
           /\ processed_images' = IF Counted(outcome) THEN processed_images + 1
                                  ELSE processed_images
           /\ reports' = IF Counted(outcome)
                         THEN Append(reports, <<processed_images + 1, Len(entries)>>)
                         ELSE reports
    /\ cur' = cur + 1
    /\ UNCHANGED <<impl, manifest, entries, dPc, timeReported>>
    /\ UNCHANGED filterVars

\* the loop is over: "Processing time: ..." is printed
Epilogue ==
    /\ dPc = "loop"
    /\ cur > Len(entries)
    /\ timeReported' = TRUE
    /\ dPc' = "finished"
    /\ UNCHANGED <<impl, manifest, entries, dirState, cur, processed_images,
                   reports, loaded, filtered, written>>
    /\ UNCHANGED filterVars

FilterIdle ==
    /\ width = 1
    /\ height = 1
    /\ input = [n \in Pixels(1, 1) |-> 0]
    /\ nthreads = 1
    /\ pStage = "gauss"
    /\ pPc = "off"
    /\ pImage = input
    /\ pTemp = input
    /\ pGauss = input
    /\ nextRow = offset
    /\ thr = [t \in 1..1 |-> NoRow]
    /\ rowTaken = [r \in InteriorRows(1) |-> 0]
    /\ cellWriters = [n \in Pixels(1, 1) |-> {}]
    /\ sweepReads = {}
    /\ sweepWrites = {}
    /\ borderDone = FALSE
    /\ pBad = {}
    /\ sPc = "off"
    /\ sImage = input
    /\ sGauss = input
    /\ sBad = {}

DriverInit ==
    /\ impl \in {"seq", "par"}
    /\ manifest \in {"noopen", "noparse", "noarray", "ok"}
    /\ entries \in IF manifest \in {"noopen", "noparse"} THEN {<<>>}
                   ELSE SeqsUpTo(EntryKinds, MaxEntries)
    /\ dirState \in {"absent", "present", "blocked"}
    /\ dPc = "start"
    /\ cur = 1
    /\ processed_images = 0
    /\ reports = <<>>
    /\ loaded = {}
    /\ filtered = {}
    /\ written = {}
    /\ timeReported = FALSE
    /\ FilterIdle

DriverNext == Prologue \/ ProcessEntry \/ Epilogue

DriverSpec == DriverInit /\ [][DriverNext]_vars

(***************************************************************************)
(* Properties of processDataset, checked under DriverSpec                  *)
(***************************************************************************)
Attempted == 1..(cur - 1)

OneMissingRestImages ==
    /\ Cardinality({k \in DOMAIN entries : entries[k] = "missing"}) = 1
    /\ \A k \in DOMAIN entries : entries[k] \in {"missing", "image"}

\* C5: a per-entry failure (no string file_name, image that fails to load,
\* output directory that cannot be prepared) skips only that entry: every
\* later entry is still attempted, the run reaches its end-of-run report,
\* and with N entries of which exactly one fails to load, N-1 images are
\* filtered and written.
C5_EntryFailuresAreLocal ==
    manifest = "ok" =>
        /\ dPc # "returned"
        /\ dPc = "finished" =>
              /\ cur = Len(entries) + 1
              /\ timeReported
              /\ (OneMissingRestImages /\ dirState # "blocked") =>
                    /\ Cardinality(filtered) = Len(entries) - 1
                    /\ Cardinality(written) = Len(entries) - 1

\* C6, as claimed: after every attempted entry, whether it succeeded or was
\* skipped because its file_name is no string, the counter is incremented
\* by one and (processed_count, total_count) is reported, so the count
\* equals the number of entries attempted.
C6_CountsEveryAttempt ==
    (/\ dPc \in {"loop", "finished"}
     /\ \A k \in Attempted : entries[k] = "nostring" \/ k \in written)
        => /\ processed_images = cur - 1
           /\ Len(reports) = cur - 1

\* C6, amended: the counter is incremented by one and (processed_count,
\* total_count) is reported, in manifest order, after every entry that was
\* loaded, filtered and written, and only then: an entry skipped for its
\* file_name (or because it did not load, or the sequential program's mkdir
\* failed) leaves the counter as it was and reports nothing, so the count
\* equals the number of entries written.
C6_CountsWrittenEntries ==
    /\ processed_images = Cardinality(written)
    /\ reports = [k \in 1..processed_images |-> <<k, Len(entries)>>]
    /\ \A k \in Attempted : entries[k] = "nostring" => k \notin written
    /\ written \subseteq Attempted

\* a run that skipped an entry for its file_name and then wrote a later one
C6_Witness ==
    /\ dPc = "finished"
    /\ \E j, k \in Attempted :
          j < k /\ entries[j] = "nostring" /\ k \in written
    /\ processed_images < Len(entries)

\* C7: if the manifest cannot be opened, cannot be parsed, or has no array
\* "images", processDataset stops before the loop: no image is loaded,
\* filtered or written, and the counter is never incremented or reported.
C7_BadManifestStartsNothing ==
    manifest \in {"noopen", "noparse", "noarray"} =>
        /\ dPc \in {"start", "returned"}
        /\ cur = 1
        /\ loaded = {}
        /\ filtered = {}
        /\ written = {}
        /\ processed_images = 0
        /\ reports = <<>>
        /\ ~timeReported

\* processDataset has returned on an "images" that is no array but has
\* elements that name images
C7_Witness ==
    /\ manifest = "noarray"
    /\ dPc = "returned"
    /\ \E k \in DOMAIN entries : entries[k] = "image"

====
